---- MODULE Spec2Model ----
(***************************************************************************)
(* Response normalisation of the two web-search adapters of deep-research: *)
(* ClaudeWebSearch.search (src/src/ai/claude.py) and                       *)
(* OpenAIWebSearch.search (src/src/ai/openai_ws.py).                       *)
(*                                                                         *)
(* Python objects are records: hasattr(o, "f") is "f" \in DOMAIN o.        *)
(* Python lists are sequences; list indices are 1-based here, so the code's*)
(* index i is i + 1 in the model and its "not found" value -1 is 0.        *)
(* Strings are TLA+ strings; "\n".join is JoinNewline.                     *)
(***************************************************************************)
EXTENDS Integers, Sequences, FiniteSets, TLC

\* adapter .. raw_response: the search call last made and what it produced;
\* history: the calls made before it, as their caller saw them;
\* main: the run of vc_research.main
VARIABLES adapter, reply, outcome, error, requests,
          final_output, citations, raw_response, history, main

vars == <<adapter, reply, outcome, error, requests,
          final_output, citations, raw_response, history, main>>

-----------------------------------------------------------------------------
(* Bounds of the explored inputs.                                          *)

\* longest block sequence of a Claude response (structure family)
MaxBlocks == 5
\* most annotations carried by one response (citation family)
MaxAnns == 3
\* most output items of an OpenAI response (structure family)
MaxItems == 2
\* most content blocks of one OpenAI message item (structure family)
MaxContent == 1
\* most search calls made one after another
MaxCalls == 3
\* most model names given to vc_research.main
MaxModels == 3

-----------------------------------------------------------------------------
(* Python values.                                                          *)

\* Python's None, where a url, a title or a field of the result is None
NoneV == "<None>"

\* hasattr(obj, name)
HasAttr(obj, name) == name \in DOMAIN obj

\* getattr(obj, name, default)
GetAttr(obj, name, default) == IF name \in DOMAIN obj THEN obj[name] ELSE default

\* truth value of an Optional[str]: None and "" are false
Truthy(v) == v # NoneV /\ v # ""

\* sep.join(parts) with sep = "\n"
RECURSIVE JoinNewline(_)
JoinNewline(parts) ==
  IF Len(parts) = 0 THEN ""
  ELSE IF Len(parts) = 1 THEN parts[1]
  ELSE parts[1] \o "\n" \o JoinNewline(Tail(parts))

-----------------------------------------------------------------------------
(* What the provider can answer.                                           *)

Urls == {"u1", "u2"}
Titles == {"t1", "t2"}
Falsy == {NoneV, ""}

\* Annotations attached to a text: K is the kind the adapter looks for.
\* Besides complete annotations of kind K: a url or a title that is None, empty
\* or absent, an annotation of another kind, and one without a type.
Annotations(K) ==
  [type : {K}, url : Urls, title : Titles]
    \cup [type : {K}, url : Falsy, title : {"t1"}]
    \cup [type : {K}, url : {"u1"}, title : Falsy]
    \cup {[type |-> K, title |-> "t1"], [type |-> K, url |-> "u1"]}
    \cup {[type |-> "other_location", url |-> "u1", title |-> "t2"],
          [url |-> "u2", title |-> "t2"]}

\* the errors the provider call can raise
TransportErrors == {"APIConnectionError", "RateLimitError"}

\* whether response.model_dump() works
DumpOutcomes == {"ok", "raises"}

\* ---- Claude: response.content is a list of content blocks
ClaudeAnnotations == Annotations("web_search_result_location")

TextBlock(text, cits) == [type |-> "text", text |-> text, citations |-> cits]
ToolResultBlock == [type |-> "web_search_tool_result"]
ServerToolUseBlock == [type |-> "server_tool_use"]

\* structure family: up to MaxBlocks of these blocks
ClaudeStructBlocks ==
  {TextBlock("A", <<>>),
   TextBlock("B", <<[type |-> "web_search_result_location",
                     url |-> "u1", title |-> "t1"]>>),
   ToolResultBlock, ServerToolUseBlock}

\* citation family: two text blocks sharing the annotations anns, the first k
\* of them on the first block, with mid (nothing, or a tool result) between
ClaudeCiteContent(anns, k, mid) ==
  <<TextBlock("A", SubSeq(anns, 1, k))>> \o mid
    \o <<TextBlock("B", SubSeq(anns, k + 1, Len(anns)))>>

ClaudeMids == {<<>>, <<ToolResultBlock>>}

\* a response object: its content and whether its model_dump() works
ClaudeResponse(content, dump) == [content |-> content, model_dump |-> dump]

\* ---- OpenAI: response.output is a list of items; a message item has content
OpenAIAnnotations == Annotations("url_citation")

OutputText(text, anns) ==
  [type |-> "output_text", text |-> text, annotations |-> anns]
RefusalBlock == [type |-> "refusal", refusal |-> "R"]
MessageItem(content) == [type |-> "message", content |-> content]
WebSearchCallItem == [type |-> "web_search_call"]
\* an item that is no message and has content, with a text and a url_citation
ReasoningItem ==
  [type |-> "reasoning",
   content |-> <<OutputText("R", <<[type |-> "url_citation",
                                    url |-> "u2", title |-> "t1"]>>)>>]

\* structure family: up to MaxItems items, a message of up to MaxContent blocks
OpenAIStructBlocks ==
  {OutputText("", <<>>),
   OutputText("A", <<>>),
   OutputText("B", <<[type |-> "url_citation", url |-> "u1", title |-> "t1"]>>),
   RefusalBlock}

OpenAIStructItems ==
  UNION {{MessageItem(c) : c \in [1..n -> OpenAIStructBlocks]} : n \in 0..MaxContent}
    \cup {WebSearchCallItem, [type |-> "message"]}

\* citation family: the annotations anns shared by two blocks, the first k of
\* them on the first block; the blocks in one message item, or in two with the
\* second block carrying no text; before them two items that are no messages
OpenAICiteOutput(anns, k, how) ==
  <<WebSearchCallItem, ReasoningItem>> \o
    (IF how = "one_item"
       THEN <<MessageItem(<<OutputText("A", SubSeq(anns, 1, k)),
                            OutputText("B", SubSeq(anns, k + 1, Len(anns)))>>)>>
       ELSE <<MessageItem(<<OutputText("A", SubSeq(anns, 1, k))>>),
              MessageItem(<<[type |-> "output_other",
                             annotations |-> SubSeq(anns, k + 1, Len(anns))]>>)>>)

OpenAIHows == {"one_item", "two_items"}

\* a response object: its output and whether its model_dump() works
OpenAIResponse(output, dump) == [output |-> output, model_dump |-> dump]

\* ---- answers to calls made one after another: one text block or one message
\* with text A or B and at most one complete annotation, or a raised error
CallAnnSeqs(K) ==
  {<<>>} \cup {<<[type |-> K, url |-> u, title |-> "t1"]>> : u \in Urls}

ClaudeCallReplies ==
  {[raises |-> "RateLimitError"]}
    \cup {[response |-> ClaudeResponse(<<TextBlock(t, anns)>>, "ok")] :
            t \in {"A", "B"}, anns \in CallAnnSeqs("web_search_result_location")}

OpenAICallReplies ==
  {[raises |-> "RateLimitError"]}
    \cup {[response |-> OpenAIResponse(<<MessageItem(<<OutputText(t, anns)>>)>>,
                                       "ok")] :
            t \in {"A", "B"}, anns \in CallAnnSeqs("url_citation")}

-----------------------------------------------------------------------------
(* The calls a caller has made.                                            *)

\* what the caller holds of the call last made
ThisCall ==
  [adapter |-> adapter, reply |-> reply, outcome |-> outcome, error |-> error,
   final_output |-> final_output, citations |-> citations]

\* the calls made so far, the last one included
AllCalls == IF outcome = "none" THEN history ELSE Append(history, ThisCall)

-----------------------------------------------------------------------------
(* ClaudeWebSearch.search                                                  *)

\* text_blocks: the blocks of type "text"
IsTextBlock(block) == block.type = "text"
TextBlocks(content) == SelectSeq(content, IsTextBlock)

\* last_search_idx: index of the last web_search_tool_result, 0 when none
RECURSIVE LastSearchIdxFrom(_, _, _)
LastSearchIdxFrom(content, i, last) ==
  IF i > Len(content) THEN last
  ELSE LastSearchIdxFrom(content, i + 1,
         IF content[i].type = "web_search_tool_result" THEN i ELSE last)

\* mutant: the loop stops at the first web_search_tool_result
LastSearchIdxFirstMatch(content) ==
  LET found == {i \in DOMAIN content : content[i].type = "web_search_tool_result"}
  IN IF found = {} THEN 0 ELSE CHOOSE i \in found : \A j \in found : i <= j

LastSearchIdx(content) == LastSearchIdxFrom(content, 1, 0)

\* mutant: without a search result only the last text block is used
FinalTextBlocksLastOnly(content) ==
  LET last_search_idx == LastSearchIdx(content)
      text_blocks == TextBlocks(content)
  IN IF last_search_idx >= 1
       THEN TextBlocks(SubSeq(content, last_search_idx + 1, Len(content)))
       ELSE IF Len(text_blocks) = 0 THEN <<>>
       ELSE <<text_blocks[Len(text_blocks)]>>

\* final_text_blocks
FinalTextBlocks(content) ==
  LET last_search_idx == LastSearchIdx(content) IN
  IF last_search_idx >= 1
    THEN TextBlocks(SubSeq(content, last_search_idx + 1, Len(content)))
    ELSE TextBlocks(content)

\* mutant: the annotation's type is not looked at
ClaudeAdmitAnyKind(acc, citation) ==
  LET url == GetAttr(citation, "url", NoneV)
      title == GetAttr(citation, "title", NoneV)
  IN IF Truthy(url) /\ Truthy(title) /\ url \notin acc.citations_seen
       THEN [citations |-> Append(acc.citations, [url |-> url, title |-> title]),
             citations_seen |-> acc.citations_seen \cup {url}]
       ELSE acc

\* one annotation of a block: acc is [citations, citations_seen]
ClaudeAdmit(acc, citation) ==
  IF HasAttr(citation, "type") /\ citation.type = "web_search_result_location"
    THEN LET url == GetAttr(citation, "url", NoneV)
             title == GetAttr(citation, "title", NoneV)
         IN IF Truthy(url) /\ Truthy(title) /\ url \notin acc.citations_seen
              THEN [citations |-> Append(acc.citations,
                                         [url |-> url, title |-> title]),
                    citations_seen |-> acc.citations_seen \cup {url}]
              ELSE acc
    ELSE acc

\* for citation in block.citations
RECURSIVE ClaudeScanCitations(_, _)
ClaudeScanCitations(acc, cits) ==
  IF Len(cits) = 0 THEN acc
  ELSE ClaudeScanCitations(ClaudeAdmit(acc, Head(cits)), Tail(cits))

\* for block in final_text_blocks: acc is [parts, citations, citations_seen]
RECURSIVE ClaudeScanBlocks(_, _)
ClaudeScanBlocks(acc, blocks) ==
  IF Len(blocks) = 0 THEN acc
  ELSE LET block == Head(blocks)
           parts == Append(acc.parts, block.text)
           inner == [citations |-> acc.citations,
                     citations_seen |-> acc.citations_seen]
           scanned == IF HasAttr(block, "citations") /\ Len(block.citations) > 0
                        THEN ClaudeScanCitations(inner, block.citations)
                        ELSE inner
       IN ClaudeScanBlocks([parts |-> parts,
                            citations |-> scanned.citations,
                            citations_seen |-> scanned.citations_seen],
                           Tail(blocks))

\* mutant: citations_seen lives on the adapter and is never cleared
ClaudeStartKeepsSeen ==
  [parts |-> <<>>, citations |-> <<>>,
   citations_seen |->
     UNION {{c.citations[i].url : i \in DOMAIN c.citations} :
              c \in {AllCalls[n] : n \in DOMAIN AllCalls}}]

\* text_blocks, citations, citations_seen: locals, fresh in every call
ClaudeStart == [parts |-> <<>>, citations |-> <<>>, citations_seen |-> {}]

\* final_output and citations of a response
ClaudeExtract(response) ==
  LET acc == ClaudeScanBlocks(ClaudeStart, FinalTextBlocks(response.content))
  IN [final_output |-> JoinNewline(acc.parts), citations |-> acc.citations]

\* response.model_dump(): the dict of the response's data, or an exception
ModelDump(response) ==
  IF response.model_dump = "ok"
    THEN [raises |-> "none",
          value |-> [k \in DOMAIN response \ {"model_dump"} |-> response[k]]]
    ELSE [raises |-> "SerializationError"]

\* raw_response=response.model_dump(), not guarded
ClaudeSerialize(response) == ModelDump(response)

\* mutant: a failed request is sent once more
ClaudeCreateRetry(rep) ==
  [requests |-> IF HasAttr(rep, "raises") THEN 2 ELSE 1,
   raises |-> IF HasAttr(rep, "raises") THEN rep.raises ELSE "none"]

\* client.messages.create(**kwargs): one request, whose error is not caught
ClaudeCreate(rep) ==
  [requests |-> 1,
   raises |-> IF HasAttr(rep, "raises") THEN rep.raises ELSE "none"]

\* the whole of search: the state it leaves for the reply rep
ClaudeSearchResult(rep) ==
  LET sent == ClaudeCreate(rep) IN
  IF sent.raises # "none"
    THEN [outcome |-> "raised", error |-> sent.raises, requests |-> sent.requests,
          final_output |-> NoneV, citations |-> <<>>, raw_response |-> NoneV]
    ELSE LET ex == ClaudeExtract(rep.response)
             raw == ClaudeSerialize(rep.response)
         IN IF raw.raises # "none"
              THEN [outcome |-> "raised", error |-> raw.raises,
                    requests |-> sent.requests, final_output |-> NoneV,
                    citations |-> <<>>, raw_response |-> NoneV]
              ELSE [outcome |-> "returned", error |-> "none",
                    requests |-> sent.requests,
                    final_output |-> ex.final_output,
                    citations |-> ex.citations, raw_response |-> raw.value]

\* the state one call of search leaves when the provider answers rep
ClaudeSearchOn(rep) ==
  LET r == ClaudeSearchResult(rep) IN
  /\ adapter' = "claude"
  /\ history' = AllCalls
  /\ UNCHANGED main
  /\ reply' = rep
  /\ outcome' = r.outcome
  /\ error' = r.error
  /\ requests' = r.requests
  /\ final_output' = r.final_output
  /\ citations' = r.citations
  /\ raw_response' = r.raw_response

\* one call of search on a fresh adapter (outcome "none": not called yet): the
\* provider raises, or answers with a response of one of the two families (a
\* failing model_dump is explored on the structure family)
ClaudeSearch ==
  /\ adapter = "claude"
  /\ outcome = "none"
  /\ \/ \E e \in TransportErrors : ClaudeSearchOn([raises |-> e])
     \/ \E n \in 0..MaxBlocks :
          \E content \in [1..n -> ClaudeStructBlocks], dump \in DumpOutcomes :
            ClaudeSearchOn([response |-> ClaudeResponse(content, dump)])
     \/ \E n \in 0..MaxAnns :
          \E anns \in [1..n -> ClaudeAnnotations], k \in 0..n, mid \in ClaudeMids :
            ClaudeSearchOn([response |->
                              ClaudeResponse(ClaudeCiteContent(anns, k, mid), "ok")])

-----------------------------------------------------------------------------
(* OpenAIWebSearch.search                                                  *)

\* mutant: a citation is kept as soon as it has a url
OpenAIAdmitUrlOnly(cits, annotation) ==
  IF HasAttr(annotation, "type") /\ annotation.type = "url_citation"
    THEN LET url == GetAttr(annotation, "url", NoneV)
             citation == IF HasAttr(annotation, "title")
                           THEN [url |-> url, title |-> annotation.title]
                           ELSE [url |-> url]
         IN IF Truthy(url)
              THEN IF \A i \in DOMAIN cits : cits[i] # citation
                     THEN Append(cits, citation)
                     ELSE cits
              ELSE cits
    ELSE cits

\* one annotation of a content block: cits is the citations list so far
OpenAIAdmit(cits, annotation) ==
  IF HasAttr(annotation, "type") /\ annotation.type = "url_citation"
    THEN LET url == GetAttr(annotation, "url", NoneV)
             title == GetAttr(annotation, "title", NoneV)
             citation == [url |-> url, title |-> title]
         IN IF Truthy(url) /\ Truthy(title)
              THEN IF \A i \in DOMAIN cits : cits[i] # citation
                     THEN Append(cits, citation)
                     ELSE cits
              ELSE cits
    ELSE cits

\* for annotation in content_block.annotations
RECURSIVE OpenAIScanAnnotations(_, _)
OpenAIScanAnnotations(cits, anns) ==
  IF Len(anns) = 0 THEN cits
  ELSE OpenAIScanAnnotations(OpenAIAdmit(cits, Head(anns)), Tail(anns))

\* if not final_output and hasattr(content_block, 'text')
OpenAITakeText(final, content_block) ==
  IF ~Truthy(final) /\ HasAttr(content_block, "text")
    THEN content_block.text
    ELSE final

\* for content_block in item.content: acc is [final_output, citations]
RECURSIVE OpenAIScanContent(_, _)
OpenAIScanContent(acc, content) ==
  IF Len(content) = 0 THEN acc
  ELSE LET content_block == Head(content)
           final == OpenAITakeText(acc.final_output, content_block)
           cits == IF HasAttr(content_block, "annotations")
                        /\ Len(content_block.annotations) > 0
                     THEN OpenAIScanAnnotations(acc.citations,
                                                content_block.annotations)
                     ELSE acc.citations
       IN OpenAIScanContent([final_output |-> final, citations |-> cits],
                            Tail(content))

\* mutant: the content of every item is scanned, whatever the item's type
RECURSIVE OpenAIScanOutputAnyItem(_, _)
OpenAIScanOutputAnyItem(acc, output) ==
  IF Len(output) = 0 THEN acc
  ELSE LET item == Head(output)
           scanned ==
             IF HasAttr(item, "content") /\ Len(item.content) > 0
               THEN OpenAIScanContent(acc, item.content)
               ELSE acc
       IN OpenAIScanOutputAnyItem(scanned, Tail(output))

\* for item in response.output
RECURSIVE OpenAIScanOutput(_, _)
OpenAIScanOutput(acc, output) ==
  IF Len(output) = 0 THEN acc
  ELSE LET item == Head(output)
           scanned ==
             IF HasAttr(item, "type") /\ item.type = "message"
                  /\ HasAttr(item, "content") /\ Len(item.content) > 0
               THEN OpenAIScanContent(acc, item.content)
               ELSE acc
       IN OpenAIScanOutput(scanned, Tail(output))

\* final_output, citations: locals, fresh in every call
OpenAIStart == [final_output |-> "", citations |-> <<>>]

\* final_output and citations of a response
OpenAIExtract(response) ==
  LET start == OpenAIStart IN
  IF HasAttr(response, "output") /\ Len(response.output) > 0
    THEN OpenAIScanOutput(start, response.output)
    ELSE start

\* try: raw_response = response.model_dump() ... except Exception: response
OpenAISerialize(response) ==
  LET dumped == IF HasAttr(response, "model_dump")
                  THEN ModelDump(response)
                  ELSE [raises |-> "TypeError"]
  IN IF dumped.raises # "none"
       THEN [raises |-> "none", value |-> response]
       ELSE dumped

\* client.responses.create(...): one request, whose error is not caught
OpenAICreate(rep) ==
  [requests |-> 1,
   raises |-> IF HasAttr(rep, "raises") THEN rep.raises ELSE "none"]

\* the whole of search: the state it leaves for the reply rep
OpenAISearchResult(rep) ==
  LET sent == OpenAICreate(rep) IN
  IF sent.raises # "none"
    THEN [outcome |-> "raised", error |-> sent.raises, requests |-> sent.requests,
          final_output |-> NoneV, citations |-> <<>>, raw_response |-> NoneV]
    ELSE LET ex == OpenAIExtract(rep.response)
             raw == OpenAISerialize(rep.response)
         IN IF raw.raises # "none"
              THEN [outcome |-> "raised", error |-> raw.raises,
                    requests |-> sent.requests, final_output |-> NoneV,
                    citations |-> <<>>, raw_response |-> NoneV]
              ELSE [outcome |-> "returned", error |-> "none",
                    requests |-> sent.requests,
                    final_output |-> ex.final_output,
                    citations |-> ex.citations, raw_response |-> raw.value]

\* the state one call of search leaves when the provider answers rep
OpenAISearchOn(rep) ==
  LET r == OpenAISearchResult(rep) IN
  /\ adapter' = "openai"
  /\ history' = AllCalls
  /\ UNCHANGED main
  /\ reply' = rep
  /\ outcome' = r.outcome
  /\ error' = r.error
  /\ requests' = r.requests
  /\ final_output' = r.final_output
  /\ citations' = r.citations
  /\ raw_response' = r.raw_response

\* one call of search on a fresh adapter: the provider raises, or answers with
\* a response of one of the two families, or with a response that has no output (a failing model_dump is explored on
\* the structure family)
OpenAISearch ==
  /\ adapter = "openai"
  /\ outcome = "none"
  /\ \/ \E e \in TransportErrors : OpenAISearchOn([raises |-> e])
     \/ \E dump \in DumpOutcomes : OpenAISearchOn([response |-> [model_dump |-> dump]])
     \/ \E n \in 0..MaxItems :
          \E output \in [1..n -> OpenAIStructItems], dump \in DumpOutcomes :
            OpenAISearchOn([response |-> OpenAIResponse(output, dump)])
     \/ \E n \in 0..MaxAnns :
          \E anns \in [1..n -> OpenAIAnnotations], k \in 0..n, how \in OpenAIHows :
            OpenAISearchOn([response |->
                              OpenAIResponse(OpenAICiteOutput(anns, k, how), "ok")])

-----------------------------------------------------------------------------

\* a constructed adapter, ClaudeWebSearch() or OpenAIWebSearch(), not yet called
Init ==
  /\ adapter \in {"claude", "openai"}
  /\ reply = NoneV
  /\ outcome = "none"
  /\ error = "none"
  /\ requests = 0
  /\ final_output = NoneV
  /\ citations = <<>>
  /\ raw_response = NoneV
  /\ history = <<>>
  /\ main = [pc |-> "idle"]

Next == ClaudeSearch \/ OpenAISearch

Spec == Init /\ [][Next]_vars

-----------------------------------------------------------------------------
(* Calls made one after another, on either adapter.                        *)

\* one more call of ClaudeWebSearch.search
ClaudeCall ==
  /\ Len(AllCalls) < MaxCalls
  /\ \E rep \in ClaudeCallReplies : ClaudeSearchOn(rep)

\* one more call of OpenAIWebSearch.search
OpenAICall ==
  /\ Len(AllCalls) < MaxCalls
  /\ \E rep \in OpenAICallReplies : OpenAISearchOn(rep)

NextCalls == ClaudeCall \/ OpenAICall

SpecCalls == Init /\ [][NextCalls]_vars

-----------------------------------------------------------------------------
(* vc_research.main and research_with_model.  print is taken to succeed;   *)
(* the text format_output builds is not modelled, only where it goes.      *)

search_vars == <<adapter, reply, outcome, error, requests,
                 final_output, citations, raw_response, history>>

\* ---- Python str operations
UpperCase == "ABCDEFGHIJKLMNOPQRSTUVWXYZ"
LowerCase == "abcdefghijklmnopqrstuvwxyz"

\* the lower-case letter of every upper-case letter
ToLower ==
  LET at == [k \in 1..Len(UpperCase) |-> SubSeq(UpperCase, k, k)] IN
  [c \in {at[k] : k \in DOMAIN at} |->
     LET k == CHOOSE k \in DOMAIN at : at[k] = c IN SubSeq(LowerCase, k, k)]

\* one character of str.lower()
LowerChar(c) == IF c \in DOMAIN ToLower THEN ToLower[c] ELSE c

\* s.lower()
RECURSIVE Lower(_)
Lower(s) == IF s = "" THEN "" ELSE LowerChar(SubSeq(s, 1, 1)) \o Lower(Tail(s))

\* sub in s
Contains(sub, s) ==
  \E k \in 1..(Len(s) - Len(sub) + 1) : SubSeq(s, k, k + Len(sub) - 1) = sub

\* ---- inputs of main
\* args.models: nargs="+", at least one name
ModelNames == {"GPT-claude", "claude-sonnet-4-5", "gemini-pro"}

\* args.output: absent, or a path
Outputs == {NoneV, "report.txt"}

\* open(args.output, 'w') and f.write: done, or an OSError
WriteOutcomes == {"ok", "OSError"}

\* what the provider answers to the one request of research_with_model
AnthropicReplies ==
  {[raises |-> "RateLimitError"],
   [response |-> ClaudeResponse(<<TextBlock("A", <<>>)>>, "ok")],
   [response |-> ClaudeResponse(
      <<TextBlock("Series B, co-led",
                  <<[type |-> "web_search_result_location",
                     url |-> "u1", title |-> "t1"]>>)>>, "ok")],
   [response |-> ClaudeResponse(<<TextBlock("A", <<>>)>>, "raises")]}

OpenAIReplies ==
  {[raises |-> "RateLimitError"],
   [response |-> OpenAIResponse(<<MessageItem(<<OutputText("A", <<>>)>>)>>, "ok")],
   [response |-> OpenAIResponse(
      <<MessageItem(<<OutputText("Series B, co-led",
                                 <<[type |-> "url_citation",
                                    url |-> "u1", title |-> "t1"]>>)>>)>>, "ok")],
   [response |-> OpenAIResponse(<<MessageItem(<<OutputText(NoneV, <<>>)>>)>>,
                                "ok")]}

ProviderReplies(provider) ==
  IF provider = "anthropic" THEN AnthropicReplies ELSE OpenAIReplies

\* ---- research_with_model
\* [cite.get('url', '') for cite in response.citations if cite.get('url')]
RECURSIVE CitationUrls(_)
CitationUrls(cites) ==
  IF Len(cites) = 0 THEN <<>>
  ELSE LET cite == Head(cites)
           url == IF HasAttr(cite, "url") THEN cite.url ELSE NoneV
       IN (IF Truthy(url) THEN <<url>> ELSE <<>>) \o CitationUrls(Tail(cites))

\* the keyword heuristic on text_response.lower()
HasQualifying(text_response) ==
  LET text == Lower(text_response) IN
  /\ \E keyword \in {"series b", "series c", "series d"} : Contains(keyword, text)
  /\ \E keyword \in {"led", "co-led", "$100m", "$100 m"} : Contains(keyword, text)

\* from a WebSearchResponse to the ResearchResult; None has no lower()
ParseResponse(model_name, response) ==
  LET text_response == response.final_output
      urls == CitationUrls(response.citations)
  IN IF text_response = NoneV
       THEN [raises |-> "AttributeError"]
       ELSE [result |->
               [model_name |-> model_name,
                summary |-> text_response,
                supporting_links |-> IF Len(urls) > 0 THEN urls ELSE <<"NA">>,
                raw_response |-> text_response,
                has_qualifying_investment |-> HasQualifying(text_response)]]

\* research_with_model(model_name, vc_firm_name, model_provider), the provider
\* answering rep: [result |-> ResearchResult] or [raises |-> the exception]
research_with_model(model_name, model_provider, rep) ==
  IF model_provider \notin {"anthropic", "openai"}
    THEN [raises |-> "ValueError"]
    ELSE LET response == IF model_provider = "anthropic"
                           THEN ClaudeSearchResult(rep)
                           ELSE OpenAISearchResult(rep)
         IN IF response.outcome = "raised"
              THEN [raises |-> response.error]
              ELSE ParseResponse(model_name, response)

\* ---- main
\* if "gpt" in model.lower() ... elif "claude" in model.lower() ... else
Provider(model) ==
  IF Contains("gpt", Lower(model)) THEN "openai"
  ELSE IF Contains("claude", Lower(model)) THEN "anthropic"
  ELSE NoneV

\* a line main prints about the model at hand
Printed(m, event) == Append(m.stdout, [event |-> event, model |-> m.models[m.i]])

\* mutant: the handler gives up on the models still to come
MainExceptBreaks(m, rep) ==
  [m EXCEPT !.i = Len(m.models) + 1,
            !.stdout = Printed(m, "error"),
            !.answers = Append(@, rep)]

\* else: print "Unknown model provider ..."; continue
MainUnknown(m) ==
  [m EXCEPT !.i = @ + 1,
            !.stdout = Printed(m, "skipping"),
            !.answers = Append(@, [skipped |-> TRUE])]

\* except Exception: print "Error with ..."; continue
MainExcept(m, rep) ==
  [m EXCEPT !.i = @ + 1,
            !.stdout = Printed(m, "error"),
            !.answers = Append(@, rep)]

\* results.append(result); print "Completed research with ..."
MainAppend(m, result, rep) ==
  [m EXCEPT !.i = @ + 1,
            !.results = Append(@, result),
            !.stdout = Printed(m, "completed"),
            !.answers = Append(@, rep)]

\* args = parser.parse_args(); results = []
MainStart ==
  /\ main.pc = "idle"
  /\ \E n \in 1..MaxModels :
       \E models \in [1..n -> ModelNames], output \in Outputs :
         main' = [pc |-> "loop", models |-> models, output |-> output, i |-> 1,
                  results |-> <<>>, stdout |-> <<>>, answers |-> <<>>,
                  write |-> NoneV, code |-> NoneV, error |-> "none"]
  /\ UNCHANGED search_vars

\* one pass of: for model in args.models
MainIteration ==
  /\ main.pc = "loop"
  /\ main.i <= Len(main.models)
  /\ LET model == main.models[main.i]
         provider == Provider(model)
     IN IF provider = NoneV
          THEN main' = MainUnknown(main)
          ELSE \E rep \in ProviderReplies(provider) :
                 LET r == research_with_model(model, provider, rep) IN
                 IF HasAttr(r, "raises")
                   THEN main' = MainExcept(main, rep)
                   ELSE main' = MainAppend(main, r.result, rep)
  /\ UNCHANGED search_vars

\* after the loop: if results: print or write the report; return 0; else
\* return 1.  An OSError of open or write is not caught.
MainFinish ==
  /\ main.pc = "loop"
  /\ main.i > Len(main.models)
  /\ IF Len(main.results) > 0
       THEN IF Truthy(main.output)
              THEN \E w \in WriteOutcomes :
                     main' = IF w = "ok"
                               THEN [main EXCEPT !.pc = "returned", !.code = 0,
                                                 !.write = w]
                               ELSE [main EXCEPT !.pc = "raised", !.error = w,
                                                 !.write = w]
              ELSE main' = [main EXCEPT !.pc = "returned", !.code = 0]
       ELSE main' = [main EXCEPT !.pc = "returned", !.code = 1]
  /\ UNCHANGED search_vars

NextMain == MainStart \/ MainIteration \/ MainFinish

SpecMain == Init /\ [][NextMain]_vars

-----------------------------------------------------------------------------
(* Vocabulary of the properties: what a response holds, read off the reply *)
(* independently of the scans above.                                       *)

\* the provider answered with a response (it did not raise)
Answered == outcome # "none" /\ "response" \in DOMAIN reply

Returned(name) == adapter = name /\ outcome = "returned"

\* the least and the greatest element of a non-empty set of numbers
Least(S) == CHOOSE m \in S : \A x \in S : m <= x
Greatest(S) == CHOOSE m \in S : \A x \in S : x <= m

\* the elements of a set of numbers in increasing order
RECURSIVE Ascending(_)
Ascending(S) == IF S = {} THEN <<>> ELSE <<Least(S)>> \o Ascending(S \ {Least(S)})

\* the concatenation of a sequence of sequences
RECURSIVE Flatten(_)
Flatten(seqs) ==
  IF Len(seqs) = 0 THEN <<>>
  ELSE Flatten(SubSeq(seqs, 1, Len(seqs) - 1)) \o seqs[Len(seqs)]

\* texts separated by single newlines
RECURSIVE Lines(_)
Lines(texts) ==
  IF Len(texts) = 0 THEN ""
  ELSE IF Len(texts) = 1 THEN texts[1]
  ELSE Lines(SubSeq(texts, 1, Len(texts) - 1)) \o "\n" \o texts[Len(texts)]

\* ---- Claude
Content == reply.response.content
ToolResultIdxs == {i \in DOMAIN Content : Content[i].type = "web_search_tool_result"}
TextIdxs == {i \in DOMAIN Content : Content[i].type = "text"}
\* the text blocks after the last tool result, all of them when there is none
EligibleIdxs ==
  IF ToolResultIdxs = {} THEN TextIdxs
  ELSE {i \in TextIdxs : i > Greatest(ToolResultIdxs)}
TextsAt(idxs) ==
  LET order == Ascending(idxs) IN [n \in 1..Len(order) |-> Content[order[n]].text]
AnnotationsAt(idxs) ==
  LET order == Ascending(idxs)
  IN Flatten([n \in 1..Len(order) |-> Content[order[n]].citations])

\* ---- OpenAI
Output == IF "output" \in DOMAIN reply.response THEN reply.response.output ELSE <<>>
\* the content blocks of the message items, in output order
MessageBlocks ==
  Flatten([n \in 1..Len(Output) |->
             IF Output[n].type = "message" /\ "content" \in DOMAIN Output[n]
               THEN Output[n].content ELSE <<>>])
TextBearing == {i \in DOMAIN MessageBlocks : "text" \in DOMAIN MessageBlocks[i]}
BlockAnnotations(block) ==
  IF "annotations" \in DOMAIN block THEN block.annotations ELSE <<>>

\* ---- both: the candidate citations of the response, in encounter order
Candidates ==
  IF adapter = "claude" THEN AnnotationsAt(EligibleIdxs)
  ELSE Flatten([n \in 1..Len(MessageBlocks) |-> BlockAnnotations(MessageBlocks[n])])
WantedKind ==
  IF adapter = "claude" THEN "web_search_result_location" ELSE "url_citation"
OfWantedKind(a) == "type" \in DOMAIN a /\ a.type = WantedKind
Present(a, field) == field \in DOMAIN a /\ a[field] # NoneV /\ a[field] # ""
Admissible(a) == OfWantedKind(a) /\ Present(a, "url") /\ Present(a, "title")
Occurrences(u) ==
  {i \in DOMAIN Candidates : Admissible(Candidates[i]) /\ Candidates[i].url = u}
CitedUrls == {citations[i].url : i \in DOMAIN citations}

-----------------------------------------------------------------------------
(* Properties.                                                             *)

\* C1: the citations a search returns hold each URL at most once, and the title
\* kept for a URL is the title of the first admissible candidate carrying it,
\* also when the URL comes again with another title (both adapters).
C1_UniqueUrlFirstTitle ==
  outcome = "returned" =>
    /\ \A i, j \in DOMAIN citations :
         i # j => citations[i].url # citations[j].url
    /\ \A i \in DOMAIN citations :
         /\ Occurrences(citations[i].url) # {}
         /\ citations[i].title =
              Candidates[Least(Occurrences(citations[i].url))].title

\* C2: when a Claude response holds a web_search_tool_result block, final_output
\* is the texts of the text blocks after the last such block, in order, joined by
\* single newlines; no block at or before it contributes.
C2_TextAfterLastToolResult ==
  (Returned("claude") /\ ToolResultIdxs # {}) =>
    final_output =
      Lines(TextsAt({i \in TextIdxs : i > Greatest(ToolResultIdxs)}))

\* C2 witness: [text, tool result, text, tool result, text] returned the last text
C2_Witness ==
  /\ Returned("claude")
  /\ Len(Content) = 5
  /\ ToolResultIdxs = {2, 4}
  /\ TextIdxs = {1, 3, 5}
  /\ Content[1].text # Content[5].text
  /\ final_output = Content[5].text

\* C3: the final_output OpenAIWebSearch.search returns is the text of the first
\* content block that has a text among the message items' blocks, whatever that
\* text is; a later text never replaces it and is never appended to it.
C3_FirstTextWins ==
  Returned("openai") =>
    final_output =
      IF TextBearing = {} THEN "" ELSE MessageBlocks[Least(TextBearing)].text

\* C4: when serializing the response fails, search still returns, with the
\* unserialized response object as raw_response; no error reaches the caller
\* (both adapters).
C4_SerializationFailureRecovered ==
  (Answered /\ reply.response.model_dump = "raises") =>
    /\ outcome = "returned"
    /\ error = "none"
    /\ raw_response = reply.response

\* C5: every returned citation has exactly a url and a title, both neither None
\* nor empty (both adapters).
C5_CitationsComplete ==
  outcome = "returned" =>
    \A i \in DOMAIN citations :
      /\ DOMAIN citations[i] = {"url", "title"}
      /\ citations[i].url \notin {NoneV, ""}
      /\ citations[i].title \notin {NoneV, ""}

\* C5 witness: a candidate of the wanted kind without a usable url or title came
\* before a complete one, and only the complete one is cited
C5_Witness ==
  /\ outcome = "returned"
  /\ Len(citations) = 1
  /\ \E i, j \in DOMAIN Candidates :
       /\ i < j
       /\ OfWantedKind(Candidates[i]) /\ ~Admissible(Candidates[i])
       /\ Admissible(Candidates[j])

\* C6: the returned citations are in the order in which their URLs first occur
\* among the admissible candidates of the response (both adapters).
C6_FirstOccurrenceOrder ==
  outcome = "returned" =>
    \A i, j \in DOMAIN citations :
      i < j =>
        /\ Occurrences(citations[i].url) # {}
        /\ Occurrences(citations[j].url) # {}
        /\ Least(Occurrences(citations[i].url))
             < Least(Occurrences(citations[j].url))

\* C7: when a Claude response holds no web_search_tool_result block, final_output
\* is the texts of all its text blocks, in order, joined by single newlines, and
\* the citations are those of the admissible annotations of all its text blocks.
C7_NoToolResultAllText ==
  (Returned("claude") /\ ToolResultIdxs = {}) =>
    /\ final_output = Lines(TextsAt(TextIdxs))
    /\ LET anns == AnnotationsAt(TextIdxs) IN
       CitedUrls = {anns[i].url : i \in {n \in DOMAIN anns : Admissible(anns[n])}}

\* C7 witness: two text blocks, no tool result, both texts returned and an
\* annotation of each block cited
C7_Witness ==
  /\ Returned("claude")
  /\ ToolResultIdxs = {}
  /\ Len(Content) = 2
  /\ TextIdxs = {1, 2}
  /\ final_output = "A\nB"
  /\ \E a \in 1..Len(Content[1].citations), b \in 1..Len(Content[2].citations) :
       /\ Admissible(Content[1].citations[a])
       /\ Admissible(Content[2].citations[b])
       /\ Content[1].citations[a].url # Content[2].citations[b].url
       /\ CitedUrls = {Content[1].citations[a].url, Content[2].citations[b].url}

\* whether the response holds nothing to extract
NothingToExtract ==
  IF adapter = "claude" THEN EligibleIdxs = {}
  ELSE \A i \in DOMAIN MessageBlocks :
         /\ "text" \notin DOMAIN MessageBlocks[i]
         /\ "annotations" \notin DOMAIN MessageBlocks[i]

\* C8: a response with nothing to extract makes search return normally, with an
\* empty final_output and no citations; no exception is raised (both adapters).
C8_EmptyResponseReturnsEmpty ==
  (Answered /\ NothingToExtract) =>
    /\ outcome = "returned"
    /\ final_output = ""
    /\ citations = <<>>

\* C9: a call of search issues exactly one request; when the request fails its
\* error reaches the caller unchanged, nothing is returned and no second request
\* is issued (both adapters).
C9_OneRequestNoRetry ==
  outcome # "none" =>
    /\ requests = 1
    /\ "raises" \in DOMAIN reply =>
         /\ outcome = "raised"
         /\ error = reply.raises
         /\ final_output = NoneV /\ citations = <<>> /\ raw_response = NoneV

\* C9 witness: the provider call raised and the call ended with that error
C9_Witness ==
  /\ outcome = "raised"
  /\ error = "RateLimitError"
  /\ requests = 1

\* C10: every citation ClaudeWebSearch.search returns is the url and title of a
\* web_search_result_location annotation of an eligible text block, and every
\* admissible annotation of an eligible text block has its url cited: other
\* kinds and blocks at or before the last tool result neither add a citation
\* nor suppress one.
C10_OnlyEligibleLocations ==
  Returned("claude") =>
    LET anns == AnnotationsAt(EligibleIdxs) IN
    /\ \A i \in DOMAIN citations :
         \E n \in DOMAIN anns :
           /\ Admissible(anns[n])
           /\ anns[n].type = "web_search_result_location"
           /\ anns[n].url = citations[i].url
           /\ anns[n].title = citations[i].title
    /\ \A n \in DOMAIN anns :
         Admissible(anns[n]) => anns[n].url \in CitedUrls

\* C10 witness: a text block before the last tool result and an annotation of
\* another kind carry a url that an eligible annotation carries too, and that
\* url is cited with the eligible annotation's title
C10_Witness ==
  /\ Returned("claude")
  /\ ToolResultIdxs = {2}
  /\ TextIdxs = {1, 3}
  /\ Len(Content[1].citations) = 1
  /\ Admissible(Content[1].citations[1])
  /\ Len(Content[3].citations) = 2
  /\ ~OfWantedKind(Content[3].citations[1])
  /\ Admissible(Content[3].citations[2])
  /\ Content[3].citations[2].url = Content[1].citations[1].url
  /\ Present(Content[3].citations[1], "url")
  /\ Content[3].citations[2].url = Content[3].citations[1].url
  /\ Content[3].citations[2].title # Content[1].citations[1].title
  /\ citations = <<[url |-> Content[3].citations[2].url,
                    title |-> Content[3].citations[2].title]>>

\* C11: OpenAIWebSearch.search cites the url of every admissible url_citation
\* annotation of every content block of every message item, blocks without a
\* text and blocks whose text was not used included, and every citation it
\* returns is the url and title of such an annotation: other kinds and the
\* content of other items add none.
C11_AllMessageBlocksScanned ==
  Returned("openai") =>
    LET anns == Flatten([n \in 1..Len(MessageBlocks) |->
                           BlockAnnotations(MessageBlocks[n])])
    IN /\ \A n \in DOMAIN anns :
            Admissible(anns[n]) => anns[n].url \in CitedUrls
       /\ \A i \in DOMAIN citations :
            \E n \in DOMAIN anns :
              /\ Admissible(anns[n])
              /\ anns[n].type = "url_citation"
              /\ citations[i] = [url |-> anns[n].url, title |-> anns[n].title]

\* C11 witness: two message items; the second one's block has no text, and an
\* annotation of each block is cited, while an annotation of another kind and
\* the url_citation of an item that is no message are not
C11_Witness ==
  /\ Returned("openai")
  /\ Len(MessageBlocks) = 2
  /\ "text" \in DOMAIN MessageBlocks[1]
  /\ final_output = MessageBlocks[1].text
  /\ "text" \notin DOMAIN MessageBlocks[2]
  /\ "annotations" \in DOMAIN MessageBlocks[1]
  /\ "annotations" \in DOMAIN MessageBlocks[2]
  /\ \E a \in DOMAIN MessageBlocks[1].annotations,
        b, c \in DOMAIN MessageBlocks[2].annotations :
       /\ Admissible(MessageBlocks[1].annotations[a])
       /\ Admissible(MessageBlocks[2].annotations[b])
       /\ ~OfWantedKind(MessageBlocks[2].annotations[c])
       /\ citations =
            <<[url |-> MessageBlocks[1].annotations[a].url,
               title |-> MessageBlocks[1].annotations[a].title],
              [url |-> MessageBlocks[2].annotations[b].url,
               title |-> MessageBlocks[2].annotations[b].title]>>
  /\ \E n \in DOMAIN Output :
       /\ Output[n].type # "message"
       /\ "content" \in DOMAIN Output[n]
       /\ \E x \in DOMAIN Output[n].content[1].annotations :
            LET ann == Output[n].content[1].annotations[x] IN
            /\ Admissible(ann)
            /\ \A i \in DOMAIN citations :
                 citations[i] # [url |-> ann.url, title |-> ann.title]

\* the urls a call's own response offers: those of its admissible annotations
OwnUrls(call) ==
  LET blocks == IF call.adapter = "claude"
                  THEN call.reply.response.content
                  ELSE Flatten([n \in DOMAIN call.reply.response.output |->
                                  call.reply.response.output[n].content])
      kind == IF call.adapter = "claude"
                THEN "web_search_result_location" ELSE "url_citation"
      field == IF call.adapter = "claude" THEN "citations" ELSE "annotations"
  IN UNION {{blocks[b][field][a].url : a \in DOMAIN blocks[b][field]} :
              b \in DOMAIN blocks}

\* C12: what a call of search returns depends on its own response only: the
\* urls it cites are those its response offers, none suppressed by an earlier
\* call and none taken over from one, and two calls on the same adapter that
\* receive equal responses return equal final_output and citations.
C12_CallsIndependent ==
  \A i \in DOMAIN AllCalls :
    /\ AllCalls[i].outcome = "returned" =>
         {AllCalls[i].citations[n].url : n \in DOMAIN AllCalls[i].citations}
           = OwnUrls(AllCalls[i])
    /\ \A j \in DOMAIN AllCalls :
         (AllCalls[i].adapter = AllCalls[j].adapter
            /\ AllCalls[i].reply = AllCalls[j].reply) =>
           /\ AllCalls[i].outcome = AllCalls[j].outcome
           /\ AllCalls[i].final_output = AllCalls[j].final_output
           /\ AllCalls[i].citations = AllCalls[j].citations

\* C12 witness: the same response with a citation answered the first and the
\* third call on one adapter, another response the second call, and both the
\* first and the third call returned that citation
C12_Witness ==
  /\ Len(AllCalls) = 3
  /\ AllCalls[1].adapter = AllCalls[3].adapter
  /\ AllCalls[1].reply = AllCalls[3].reply
  /\ AllCalls[2].reply # AllCalls[1].reply
  /\ AllCalls[1].outcome = "returned"
  /\ AllCalls[2].outcome = "returned"
  /\ Len(AllCalls[1].citations) = 1
  /\ Len(AllCalls[2].citations) = 1
  /\ AllCalls[2].final_output # AllCalls[1].final_output
  /\ AllCalls[3].citations = AllCalls[1].citations
  /\ AllCalls[3].final_output = AllCalls[1].final_output

\* ---- main: the models, read off args.models and the providers' answers
MainRunning == main.pc # "idle"

MainEnded == main.pc \in {"returned", "raised"}

\* main returned code
MainReturned(code) == main.pc = "returned" /\ main.code = code

\* a name that holds gpt or claude in some mix of cases
KnownName(name) == name \in {"GPT-claude", "claude-sonnet-4-5"}

\* model k was attempted and produced a result: its name is known, its provider
\* answered, and search and research_with_model raised nothing
Succeeded(k) ==
  /\ KnownName(main.models[k])
  /\ "response" \in DOMAIN main.answers[k]
  /\ LET found == IF Contains("gpt", Lower(main.models[k]))
                    THEN OpenAISearchResult(main.answers[k])
                    ELSE ClaudeSearchResult(main.answers[k])
     IN found.outcome = "returned" /\ found.final_output # NoneV

\* the names of the models among the first n that succeeded, in order
RECURSIVE SucceededUpTo(_)
SucceededUpTo(n) ==
  IF n = 0 THEN <<>>
  ELSE SucceededUpTo(n - 1)
         \o (IF Succeeded(n) THEN <<main.models[n]>> ELSE <<>>)

\* every model before the one at hand was attempted once, in the order given;
\* the results are those of the models that succeeded, in that order; main
\* ends only after the last model
MainSkipsOnlyFailures ==
  /\ [n \in DOMAIN main.stdout |-> main.stdout[n].model]
       = SubSeq(main.models, 1, main.i - 1)
  /\ Len(main.answers) = main.i - 1
  /\ [n \in DOMAIN main.results |-> main.results[n].model_name]
       = SucceededUpTo(main.i - 1)
  /\ \A n \in DOMAIN main.stdout :
       main.stdout[n].event = "completed" <=> Succeeded(n)
  /\ MainEnded => main.i = Len(main.models) + 1

\* C13 as stated: a failure only skips its model, the results keep the order
\* of the models that succeeded, and main returns 0 exactly when at least one
\* model produced a result and 1 exactly when none did.
C13_ReturnsZeroIffAnyResult ==
  MainRunning =>
    /\ MainSkipsOnlyFailures
    /\ MainEnded =>
         /\ MainReturned(0) <=> Len(main.results) > 0
         /\ MainReturned(1) <=> Len(main.results) = 0

\* C13 amended: a failure only skips its model, the results keep the order of
\* the models that succeeded, and main returns 1 exactly when no model produced
\* a result; when one did, main returns 0 exactly when the report was printed
\* or written, and raises the OSError, returning nothing, when writing the
\* output file failed.
C13_ReturnsZeroUnlessWriteFails ==
  MainRunning =>
    /\ MainSkipsOnlyFailures
    /\ MainEnded =>
         /\ MainReturned(1) <=> Len(main.results) = 0
         /\ MainReturned(0) <=> (Len(main.results) > 0 /\ main.write # "OSError")
         /\ main.pc = "raised" <=>
              (Len(main.results) > 0 /\ main.write = "OSError")
         /\ main.write # NoneV <=> (Len(main.results) > 0 /\ Truthy(main.output))

\* C13 witness: of three models the first raised, the second has an unknown
\* name, the third produced the only result, and writing the report failed
C13_Witness ==
  /\ main.pc = "raised"
  /\ Len(main.models) = 3
  /\ main.stdout[1].event = "error"
  /\ main.stdout[2].event = "skipping"
  /\ main.stdout[3].event = "completed"
  /\ Len(main.results) = 1
  /\ main.results[1].model_name = main.models[3]
  /\ main.write = "OSError"
  /\ main.code = NoneV

====
